---- MODULE Spec2Model ----
(***************************************************************************)
(* A model of fractonkv: the key-value command handlers and the command    *)
(* resolution (fractonkv-core/src/commands), the stored values and their   *)
(* wire frames, the inline per-shard connection loop, the hash ring and    *)
(* the shard manager (fractonkv-core/src/shard), the mailbox/actor shard   *)
(* with its manager (src/shard) and the TCP engine with its codec          *)
(* (src/engine).                                                           *)
(***************************************************************************)
EXTENDS Integers, Sequences, FiniteSets, TLC

\* ------------------------------------------------------------ bounds
\* Instants run over 0..MaxTime.
MaxTime == 3
\* Relative TTLs of the entries of the initial store run over 0..MaxTtl.
MaxTtl == 2
\* created_at of the entries of the initial store runs over 0..MaxCreatedAt.
MaxCreatedAt == 1
\* ShardManager::new(num_shards)
NumShards == 2
\* Concurrent callers of ShardManager::dispatch, and the dispatch calls made
\* in all.
NumDispatchers == 2
MaxJobs == 2
\* Capacity of a shard's mailbox (mpsc::channel(100) in the source).
MailboxCap == 1
\* Connections of one inline shard, and the frames their clients send in all.
NumConns == 2
MaxFrames == 3
\* Virtual nodes per shard on the ring (64 in ShardManager::start).
Vnodes == 2
\* The engine's sizes, counted in lines of the byte stream (a line is the
\* model's unit of input): MAX_REQ_BYTES (4 MiB in the code) and the most
\* one read_buf call appends (READ_BUF_INIT-sized spare capacity in the code).
MAX_REQ_BYTES == 4
READ_BUF_INIT == 3
\* Collections of the converted values hold up to MaxElems elements.
MaxElems == 2

VARIABLES
    db,         \* DataStore: a function from a subset of Keys to StoreObject
    now,        \* the monotonic clock read by Instant::now()
    last,       \* the last handler call: command, arguments, result, store before
    written,    \* the keys some write was issued for, or that the store was built with
    component,  \* which part of the repository this behaviour runs
    managerAlive, \* the ShardManager, and with it every mailbox sender, exists
    mailbox,    \* per shard, the jobs queued in its mpsc channel
    shardState, \* per shard, where Shard::run is: "recv", "handling", "stopped"
    cur,        \* per shard, the jobs handle_job is executing
    shardDb,    \* per shard, Shard.db
    pc,         \* per dispatcher, where its dispatch call is
    job,        \* per dispatcher, the ShardJob of its dispatch call
    chan,       \* per job id, the state of the job's oneshot channel
    nextId,     \* the next job id
    issued,     \* per dispatcher, the commands it dispatched, in order
    results,    \* per dispatcher, what its dispatch calls returned, in order
    executed,   \* the jobs handle_job ran, in order, with the shard that ran each
    lost,       \* jobs dropped from a mailbox, unexecuted, while their originator waited
    connState,  \* per connection, where handle_connection is
    connFrame,  \* per connection, the frame (then the response) of this iteration
    inbox,      \* per connection, the frames received and not yet read
    outbox,     \* per connection, the responses sent
    sent,       \* how many frames the clients have sent
    borrows,    \* the connections that hold a RefMut of the shard's db
    polling,    \* the connection future the shard's thread is polling, or 0
    shardPanic, \* why the shard's thread panicked, or "none"
    mgr,        \* fractonkv-core's ShardManager: started, num_shards, senders
    threads,    \* per spawned shard thread, where Shard::run is
    sendLast,   \* the last send on one of the manager's senders, and its result
    startRing,  \* the ConsistentHashRing that start constructed
    startRoute, \* the last get_shard call on startRing: key and result
    ringState,  \* a ConsistentHashRing of this process, and what it was built from
    routed,     \* the get_shard calls made on rings built from these inputs, each
                \* with the random state of the process that made it
    randomSeed, \* the random state of this process (std's RandomState keys)
    resolved,   \* the CommandKind::from_frame calls made: frame and result
    engConn,    \* per engine connection, its task: state, buf, replies written
    engSock,    \* per engine connection, the socket: the bytes written by the peer
                \* and not yet read
    engSent,    \* how many chunks the peers have written
    codecCall,  \* the last RedisCodec::decode call: src before, result, src after
    conv        \* the last conversion of a stored value: value, frame, value read back

storeVars == <<db, now, last, written>>
mailboxVars == <<managerAlive, mailbox, shardState, cur, shardDb, pc, job, chan, nextId,
                 issued, results, executed, lost>>
inlineVars == <<connState, connFrame, inbox, outbox, sent, borrows, polling, shardPanic>>
startVars == <<mgr, threads, sendLast, startRing, startRoute>>
ringVars == <<ringState, routed, randomSeed>>
engineVars == <<engConn, engSock, engSent>>
frontVars == <<resolved, engineVars, codecCall, conv>>
coreVars == <<startVars, ringVars, frontVars>>
vars == <<storeVars, component, mailboxVars, inlineVars, coreVars>>

\* ------------------------------------------------------------ wire frames
\* redis_protocol::resp3::types::BytesFrame, the variants the handlers touch.
SimpleString(s) == [kind |-> "SimpleString", data |-> s, items |-> <<>>]
BlobString(s) == [kind |-> "BlobString", data |-> s, items |-> <<>>]
SimpleError(s) == [kind |-> "SimpleError", data |-> s, items |-> <<>>]
Null == [kind |-> "Null", data |-> "", items |-> <<>>]
Array(xs) == [kind |-> "Array", data |-> "", items |-> xs]

\* Result<BytesFrame, CommandExecutionError>
Ok(f) == [ok |-> TRUE, frame |-> f, err |-> "", cmd |-> ""]
WrongArity(name) == [ok |-> FALSE, frame |-> Null, err |-> "WrongArity", cmd |-> name]

\* ------------------------------------------------------------ value model
Keys == {"a", "b"}
Vals == {"1", "2"}

\* Option<Duration>
SomeTtl(d) == [some |-> TRUE, d |-> d]
NoTtl == [some |-> FALSE, d |-> 0]

\* DataKind
String(b) == [kind |-> "String", bytes |-> b, elems |-> <<>>]
BulkString(b) == [kind |-> "BulkString", bytes |-> b, elems |-> <<>>]
List(xs) == [kind |-> "List", bytes |-> "", elems |-> xs]

\* Hash(pairs): a HashMap of the pairs <<field, value>>, in the order the
\* map iterates them; elems holds field, value, field, value, ...
Hash(pairs) ==
    [kind |-> "Hash", bytes |-> "",
     elems |-> [i \in 1..(2 * Len(pairs)) |->
                   String(pairs[(i + 1) \div 2][IF i % 2 = 1 THEN 1 ELSE 2])]]
\* DataKind::Set: a HashSet of the members, in the order the set iterates them.
DataKind_Set(members) ==
    [kind |-> "Set", bytes |-> "",
     elems |-> [i \in 1..Len(members) |-> String(members[i])]]
\* SortedSet(members): a BTreeMap in which members[i] has the score i - 1.
SortedSet(members) ==
    [kind |-> "SortedSet", bytes |-> "",
     elems |-> [i \in 1..Len(members) |-> String(members[i])]]

\* Display for the small numbers of the model (u64, and f64 without a
\* fractional part).
to_string(n) == <<"0", "1", "2", "3", "4", "5", "6", "7", "8", "9">>[n + 1]

RECURSIVE to_bytes_frame(_)
to_bytes_frame(dk) ==
    CASE dk.kind = "String" -> SimpleString(dk.bytes)
      [] dk.kind = "BulkString" -> BlobString(dk.bytes)
      [] dk.kind = "Hash" ->
            Array([i \in 1..Len(dk.elems) |-> SimpleString(dk.elems[i].bytes)])
      [] dk.kind = "List" ->
            Array([i \in 1..Len(dk.elems) |-> to_bytes_frame(dk.elems[i])])
      [] dk.kind = "Set" ->
            Array([i \in 1..Len(dk.elems) |-> SimpleString(dk.elems[i].bytes)])
      [] dk.kind = "SortedSet" ->
            Array([i \in 1..(2 * Len(dk.elems)) |->
                      IF i % 2 = 1 THEN SimpleString(to_string((i - 1) \div 2))
                      ELSE SimpleString(dk.elems[i \div 2].bytes)])

\* Option<DataKind>
SomeKind(dk) == [some |-> TRUE, v |-> dk]
NoKind == [some |-> FALSE, v |-> String("")]

\* HashMap::insert on the map kept as field, value, field, value, ...: the
\* value of a field already present is replaced.
HashMap_insert(m, k, v) ==
    IF \E i \in DOMAIN m : i % 2 = 1 /\ m[i].bytes = k
    THEN [i \in DOMAIN m |-> IF i % 2 = 0 /\ m[i - 1].bytes = k THEN String(v) ELSE m[i]]
    ELSE m \o <<String(k), String(v)>>

\* from_bytes_frame, the while loop over the pairs of data from item i on.
RECURSIVE collect_pairs(_, _, _)
collect_pairs(data, i, hash_map) ==
    IF i + 1 > Len(data) THEN hash_map
    ELSE collect_pairs(data, i + 2, HashMap_insert(hash_map, data[i].data, data[i + 1].data))

\* DataKind::from_bytes_frame
RECURSIVE from_bytes_frame(_)
from_bytes_frame(frame) ==
    CASE frame.kind = "SimpleString" -> SomeKind(String(frame.data))
      [] frame.kind = "BlobString" -> SomeKind(BulkString(frame.data))
      [] frame.kind = "Array" ->
            LET data == frame.items IN
            IF Len(data) % 2 = 0 /\ \A i \in DOMAIN data : data[i].kind = "SimpleString"
            THEN SomeKind([kind |-> "Hash", bytes |-> "",
                           elems |-> collect_pairs(data, 1, <<>>)])
            ELSE LET list == [i \in DOMAIN data |-> from_bytes_frame(data[i])] IN
                 IF \E i \in DOMAIN list : ~list[i].some THEN NoKind
                 ELSE SomeKind(List([i \in DOMAIN list |-> list[i].v]))
      [] OTHER -> NoKind

StoreObject(data, ttl, la, ca) ==
    [data |-> data, ttl |-> ttl, last_accessed |-> la, created_at |-> ca]

\* The entries the initial store may hold: a string with every TTL and
\* creation time, and one entry of each other kind that never expires.
InitTtl == {NoTtl} \cup {SomeTtl(d) : d \in 0..MaxTtl}
InitObjects ==
    {StoreObject(String("1"), ttl, ca, ca) : ttl \in InitTtl, ca \in 0..MaxCreatedAt}
    \cup {StoreObject(data, NoTtl, 0, 0) :
             data \in {BulkString("2"), List(<<String("1"), BulkString("2")>>)}}

\* ------------------------------------------------------------ handle_get
\* Mutant: the expiry test excludes the boundary (> instead of >=).
handle_get_boundary(args, store, t1, t2) ==
    IF Len(args) = 0 \/ args[1].kind # "SimpleString"
    THEN [res |-> WrongArity("GET"), db |-> store]
    ELSE LET key == args[1].data IN
         IF key \in DOMAIN store
         THEN LET v == store[key] IN
              IF v.ttl.some /\ t1 > v.created_at + v.ttl.d
              THEN [res |-> Ok(Null), db |-> store]
              ELSE [res |-> Ok(to_bytes_frame(v.data)),
                    db |-> [store EXCEPT ![key].last_accessed = t2]]
         ELSE [res |-> Ok(Null), db |-> store]

\* Mutant: a hit does not record the access.
handle_get_no_touch(args, store, t1, t2) ==
    IF Len(args) = 0 \/ args[1].kind # "SimpleString"
    THEN [res |-> WrongArity("GET"), db |-> store]
    ELSE LET key == args[1].data IN
         IF key \in DOMAIN store
         THEN LET v == store[key] IN
              IF v.ttl.some /\ t1 >= v.created_at + v.ttl.d
              THEN [res |-> Ok(Null), db |-> store]
              ELSE [res |-> Ok(to_bytes_frame(v.data)), db |-> store]
         ELSE [res |-> Ok(Null), db |-> store]

\* Mutant: a miss creates an empty entry and returns it.
handle_get_insert_on_miss(args, store, t1, t2) ==
    IF Len(args) = 0 \/ args[1].kind # "SimpleString"
    THEN [res |-> WrongArity("GET"), db |-> store]
    ELSE LET key == args[1].data IN
         IF key \in DOMAIN store
         THEN LET v == store[key] IN
              IF v.ttl.some /\ t1 >= v.created_at + v.ttl.d
              THEN [res |-> Ok(Null), db |-> store]
              ELSE [res |-> Ok(to_bytes_frame(v.data)),
                    db |-> [store EXCEPT ![key].last_accessed = t2]]
         ELSE [res |-> Ok(SimpleString("")),
               db |-> [k \in DOMAIN store \cup {key} |->
                          IF k = key THEN StoreObject(String(""), NoTtl, t2, t2)
                          ELSE store[k]]]

\* Mutant: an expired entry is deleted by the GET that finds it.
handle_get_remove_expired(args, store, t1, t2) ==
    IF Len(args) = 0 \/ args[1].kind # "SimpleString"
    THEN [res |-> WrongArity("GET"), db |-> store]
    ELSE LET key == args[1].data IN
         IF key \in DOMAIN store
         THEN LET v == store[key] IN
              IF v.ttl.some /\ t1 >= v.created_at + v.ttl.d
              THEN [res |-> Ok(Null),
                    db |-> [k \in DOMAIN store \ {key} |-> store[k]]]
              ELSE [res |-> Ok(to_bytes_frame(v.data)),
                    db |-> [store EXCEPT ![key].last_accessed = t2]]
         ELSE [res |-> Ok(Null), db |-> store]

\* Mutant: a GET that finds an expired entry restarts the entry's lifetime.
handle_get_revive(args, store, t1, t2) ==
    IF Len(args) = 0 \/ args[1].kind # "SimpleString"
    THEN [res |-> WrongArity("GET"), db |-> store]
    ELSE LET key == args[1].data IN
         IF key \in DOMAIN store
         THEN LET v == store[key] IN
              IF v.ttl.some /\ t1 >= v.created_at + v.ttl.d
              THEN [res |-> Ok(Null),
                    db |-> [store EXCEPT ![key].created_at = t2]]
              ELSE [res |-> Ok(to_bytes_frame(v.data)),
                    db |-> [store EXCEPT ![key].last_accessed = t2]]
         ELSE [res |-> Ok(Null), db |-> store]

\* handle_get(args, db): t1 is the clock read of the expiry test, t2 the clock
\* read that is stored in last_accessed.
handle_get(args, store, t1, t2) ==
    IF Len(args) = 0 \/ args[1].kind # "SimpleString"
    THEN [res |-> WrongArity("GET"), db |-> store]
    ELSE LET key == args[1].data IN
         IF key \in DOMAIN store
         THEN LET v == store[key] IN
              IF v.ttl.some /\ t1 >= v.created_at + v.ttl.d
              THEN [res |-> Ok(Null), db |-> store]
              ELSE [res |-> Ok(to_bytes_frame(v.data)),
                    db |-> [store EXCEPT ![key].last_accessed = t2]]
         ELSE [res |-> Ok(Null), db |-> store]

\* ------------------------------------------------------------ handle_set
\* Mutant: a call with a key and a value stores the value before it returns.
handle_set_insert(args, store) ==
    IF Len(args) >= 2 /\ args[1].kind = "SimpleString" /\ args[2].kind = "SimpleString"
    THEN [res |-> Ok(SimpleString("OK")),
          db |-> [k \in DOMAIN store \cup {args[1].data} |->
                     IF k = args[1].data
                     THEN StoreObject(String(args[2].data), NoTtl, 0, 0)
                     ELSE store[k]]]
    ELSE [res |-> Ok(SimpleString("OK")), db |-> store]

\* handle_set(args, db): every statement but the final Ok("OK") is commented
\* out in the source, so no argument is read and the store is not touched.
handle_set(args, store) ==
    [res |-> Ok(SimpleString("OK")), db |-> store]

\* ------------------------------------------------------------ store actions
\* Argument lists of the GET calls: no argument, a simple-string key, a
\* blob-string key, a first argument that is no string at all.
GetArgs ==
    {<<>>, <<Null>>} \cup {<<SimpleString(k)>> : k \in Keys}
        \cup {<<BlobString(k)>> : k \in Keys}

\* Flag tokens that follow key and value in a SET call.
SetFlags ==
    { <<>>, <<SimpleString("NX")>>, <<SimpleString("XX")>>,
      <<SimpleString("NX"), SimpleString("GET")>> }

\* EX with a number of seconds: the longest TTL of the model.
TtlFlags == {<<SimpleString("EX"), SimpleString(to_string(MaxTtl))>>}

\* Token lists a well-formed SET does not carry: a flag without its value,
\* NX with XX, EX with PX, a TTL that is no number or is negative, an unknown
\* flag.
BadFlags ==
    { <<SimpleString("EX")>>,
      <<SimpleString("NX"), SimpleString("XX")>>,
      <<SimpleString("EX"), SimpleString("1"), SimpleString("PX"), SimpleString("1")>>,
      <<SimpleString("EX"), SimpleString("x")>>,
      <<SimpleString("EX"), SimpleString("-1")>>,
      <<SimpleString("ZZ"), SimpleString("1")>> }

\* Calls without a value, and calls of one key and value with BadFlags.
BadSetArgs ==
    {<<>>, <<SimpleString("a")>>}
        \cup {<<SimpleString("a"), SimpleString("1")>> \o fl : fl \in BadFlags}

SetArgs ==
    {<<SimpleString(k), SimpleString(v)>> \o fl :
        k \in Keys, v \in Vals, fl \in SetFlags \cup TtlFlags}
        \cup BadSetArgs

\* The record of the last call: none yet.
NoCall == [cmd |-> "none", args |-> <<>>, res |-> Ok(Null), before |-> <<>>, t1 |-> 0, t2 |-> 0]

\* The store handed to the handlers: any store over Keys and InitObjects.
StoreStart ==
    /\ \E ks \in SUBSET Keys : db \in [ks -> InitObjects]
    /\ now = MaxCreatedAt
    /\ last = NoCall
    /\ written = DOMAIN db

StoreIdle ==
    /\ db = <<>>
    /\ now = 0
    /\ last = NoCall
    /\ written = {}

\* A client issues GET: handle_get runs against the store.
Get ==
    /\ component = "store"
    /\ \E args \in GetArgs, t2 \in {now, now + 1} :
        /\ t2 <= MaxTime
        /\ LET r == handle_get(args, db, now, t2) IN
            /\ db' = r.db
            /\ last' = [cmd |-> "GET", args |-> args, res |-> r.res,
                        before |-> db, t1 |-> now, t2 |-> t2]
        /\ now' = t2
    /\ UNCHANGED <<written, component, coreVars, mailboxVars, inlineVars>>

\* A client issues SET: handle_set runs against the store.
Set ==
    /\ component = "store"
    /\ \E args \in SetArgs :
        /\ LET r == handle_set(args, db) IN
            /\ db' = r.db
            /\ last' = [cmd |-> "SET", args |-> args, res |-> r.res,
                        before |-> db, t1 |-> now, t2 |-> now]
        /\ written' = written \cup {args[i].data : i \in {1} \cap DOMAIN args}
    /\ UNCHANGED <<now, component, coreVars, mailboxVars, inlineVars>>

\* Time passes between two calls.
Tick ==
    /\ component = "store"
    /\ now < MaxTime
    /\ now' = now + 1
    /\ UNCHANGED <<db, last, written, component, coreVars, mailboxVars, inlineVars>>

StoreNext == Get \/ Set \/ Tick

\* ------------------------------------------------------------ mailbox shards
\* src/shard/manager.rs and src/shard/mod.rs: one task per shard, fed by a
\* bounded mpsc channel; dispatch sends a job and awaits its oneshot reply.
Shards == 0..(NumShards - 1)
Dispatchers == 1..NumDispatchers
JobIds == 1..MaxJobs

\* DefaultHasher::new() is SipHash-1-3 with both keys zero; str::hash feeds it
\* the key's bytes and a final 0xff.  The 64-bit results for the keys of the
\* model (those dispatched and those routed on a ring), as four 16-bit digits,
\* most significant first.
DefaultHasher ==
    [k \in Keys \cup {"y", "0-0"} |->
        CASE k = "a" -> <<29083, 20665, 42224, 59891>>
          [] k = "b" -> <<60371, 58621, 35139, 9226>>
          [] k = "y" -> <<15978, 31464, 53448, 36687>>
          [] k = "0-0" -> <<13331, 45957, 48476, 27382>>]

\* (h as usize) % n, by Horner's rule over the digits of h.
RECURSIVE ModDigits(_, _, _)
ModDigits(digits, n, acc) ==
    IF digits = <<>> THEN acc
    ELSE ModDigits(Tail(digits), n, (acc * 65536 + Head(digits)) % n)

\* ShardManager::shard_for_key
shard_for_key(key) == ModDigits(DefaultHasher[key], NumShards, 0)

Entries == {[key |-> k, value |-> v] : k \in Keys, v \in Vals}
NoJob == [id |-> 0, entry |-> [key |-> "", value |-> ""]]
Unused == [state |-> "unused", shard |-> 0, key |-> ""]

MailboxStart ==
    /\ managerAlive = TRUE
    /\ mailbox = [s \in Shards |-> <<>>]
    /\ shardState = [s \in Shards |-> "recv"]
    /\ cur = [s \in Shards |-> {}]
    /\ shardDb = [s \in Shards |-> <<>>]
    /\ pc = [d \in Dispatchers |-> "idle"]
    /\ job = [d \in Dispatchers |-> NoJob]
    /\ chan = [i \in JobIds |-> Unused]
    /\ nextId = 1
    /\ issued = [d \in Dispatchers |-> <<>>]
    /\ results = [d \in Dispatchers |-> <<>>]
    /\ executed = <<>>
    /\ lost = {}

MailboxIdle ==
    /\ managerAlive = FALSE
    /\ mailbox = <<>>
    /\ shardState = <<>>
    /\ cur = <<>>
    /\ shardDb = <<>>
    /\ pc = <<>>
    /\ job = <<>>
    /\ chan = <<>>
    /\ nextId = 0
    /\ issued = <<>>
    /\ results = <<>>
    /\ executed = <<>>
    /\ lost = {}

\* What a dispatch call returned: Ok(String) or Err(()).
Replied(c) == [ok |-> TRUE, shard |-> c.shard, key |-> c.key]
Failed == [ok |-> FALSE, shard |-> 0, key |-> ""]
\* The caller dropped the future of a dispatch call before it returned.
Cancelled == [ok |-> FALSE, shard |-> 0, key |-> "cancelled"]

\* dispatch, lines 35-42: the oneshot channel, the job, the shard index.
dispatch_begin(d) ==
    /\ component = "mailbox"
    /\ managerAlive
    /\ pc[d] = "idle"
    /\ nextId <= MaxJobs
    /\ \E entry \in Entries :
        /\ job' = [job EXCEPT ![d] = [id |-> nextId, entry |-> entry]]
        /\ issued' = [issued EXCEPT ![d] =
               Append(@, [id |-> nextId, key |-> entry.key,
                          shard |-> shard_for_key(entry.key)])]
    /\ chan' = [chan EXCEPT ![nextId].state = "open"]
    /\ nextId' = nextId + 1
    /\ pc' = [pc EXCEPT ![d] = "send"]
    /\ UNCHANGED <<inlineVars, storeVars, component, coreVars, managerAlive, mailbox, shardState, cur, shardDb,
                   results, executed, lost>>

\* dispatch, lines 43-45: send(job).await finds the mailbox full and the
\* receiver alive: the call is suspended until a slot is free.
dispatch_suspend(d) ==
    /\ component = "mailbox"
    /\ pc[d] = "send"
    /\ LET s == shard_for_key(job[d].entry.key) IN
        /\ shardState[s] # "stopped"
        /\ Len(mailbox[s]) >= MailboxCap
    /\ pc' = [pc EXCEPT ![d] = "suspended"]
    /\ UNCHANGED <<inlineVars, storeVars, component, coreVars, managerAlive, mailbox, shardState, cur,
                   shardDb, job, chan, nextId, issued, results, executed, lost>>

\* Mutant: a send to a mailbox whose receiver is gone stays pending instead of
\* failing.
dispatch_send_hang(d) ==
    /\ component = "mailbox"
    /\ pc[d] \in {"send", "suspended"}
    /\ LET s == shard_for_key(job[d].entry.key) IN
        /\ shardState[s] # "stopped"
        /\ Len(mailbox[s]) < MailboxCap
        /\ mailbox' = [mailbox EXCEPT ![s] = Append(@, job[d])]
        /\ pc' = [pc EXCEPT ![d] = "await"]
        /\ UNCHANGED <<results, chan, job>>
    /\ UNCHANGED <<inlineVars, storeVars, component, coreVars, managerAlive, shardState, cur, shardDb, nextId,
                   issued, executed, lost>>

\* dispatch, lines 43-46: send(job).await.  The send fails when the receiver
\* is gone, suspends while the mailbox is full, and enqueues otherwise.
dispatch_send(d) ==
    /\ component = "mailbox"
    /\ pc[d] \in {"send", "suspended"}
    /\ LET s == shard_for_key(job[d].entry.key) IN
        IF shardState[s] = "stopped"
        THEN /\ results' = [results EXCEPT ![d] = Append(@, Failed)]
             /\ chan' = [chan EXCEPT ![job[d].id].state = "closed"]
             /\ pc' = [pc EXCEPT ![d] = "idle"]
             /\ job' = [job EXCEPT ![d] = NoJob]
             /\ UNCHANGED mailbox
        ELSE /\ Len(mailbox[s]) < MailboxCap
             /\ mailbox' = [mailbox EXCEPT ![s] = Append(@, job[d])]
             /\ pc' = [pc EXCEPT ![d] = "await"]
             /\ UNCHANGED <<results, chan, job>>
    /\ UNCHANGED <<inlineVars, storeVars, component, coreVars, managerAlive, shardState, cur, shardDb, nextId,
                   issued, executed, lost>>

\* dispatch whose resp_rx.await takes a reply only and never sees the sender
\* dropped.
dispatch_await_hang(d) ==
    /\ component = "mailbox"
    /\ pc[d] = "await"
    /\ chan[job[d].id].state = "sent"
    /\ results' = [results EXCEPT ![d] = Append(@, Replied(chan[job[d].id]))]
    /\ chan' = [chan EXCEPT ![job[d].id].state = "closed"]
    /\ pc' = [pc EXCEPT ![d] = "idle"]
    /\ job' = [job EXCEPT ![d] = NoJob]
    /\ UNCHANGED <<inlineVars, storeVars, component, coreVars, managerAlive, mailbox, shardState, cur, shardDb,
                   nextId, issued, executed, lost>>

\* dispatch, line 48: resp_rx.await returns the reply, or fails when the
\* sender was dropped without a reply.
dispatch_await(d) ==
    /\ component = "mailbox"
    /\ pc[d] = "await"
    /\ chan[job[d].id].state \in {"sent", "txDropped"}
    /\ results' = [results EXCEPT ![d] =
           Append(@, IF chan[job[d].id].state = "sent"
                     THEN Replied(chan[job[d].id]) ELSE Failed)]
    /\ chan' = [chan EXCEPT ![job[d].id].state = "closed"]
    /\ pc' = [pc EXCEPT ![d] = "idle"]
    /\ job' = [job EXCEPT ![d] = NoJob]
    /\ UNCHANGED <<inlineVars, storeVars, component, coreVars, managerAlive, mailbox, shardState, cur, shardDb,
                   nextId, issued, executed, lost>>

\* The caller drops the future of dispatch while it is pending, at the send
\* or at resp_rx: the job not yet sent, or the oneshot receiver, is dropped.
dispatch_cancel(d) ==
    /\ component = "mailbox"
    /\ pc[d] \in {"suspended", "await"}
    /\ chan' = [chan EXCEPT ![job[d].id].state =
           IF pc[d] = "await" /\ @ = "open" THEN "rxDropped" ELSE "closed"]
    /\ results' = [results EXCEPT ![d] = Append(@, Cancelled)]
    /\ pc' = [pc EXCEPT ![d] = "idle"]
    /\ job' = [job EXCEPT ![d] = NoJob]
    /\ UNCHANGED <<inlineVars, storeVars, component, coreVars, managerAlive, mailbox, shardState, cur,
                   shardDb, nextId, issued, executed, lost>>

\* The ShardManager is dropped, and its senders with it: every mailbox closes.
manager_drop ==
    /\ component = "mailbox"
    /\ managerAlive
    /\ \A d \in Dispatchers : pc[d] = "idle"
    /\ managerAlive' = FALSE
    /\ UNCHANGED <<inlineVars, storeVars, component, coreVars, mailbox, shardState, cur, shardDb, pc, job, chan,
                   nextId, issued, results, executed, lost>>

\* Shard::run, line 35, Some(job): recv() yields the job at the head.
Shard_recv(s) ==
    /\ component = "mailbox"
    /\ shardState[s] = "recv"
    /\ mailbox[s] # <<>>
    /\ cur' = [cur EXCEPT ![s] = @ \cup {Head(mailbox[s])}]
    /\ mailbox' = [mailbox EXCEPT ![s] = Tail(@)]
    /\ shardState' = [shardState EXCEPT ![s] = "handling"]
    /\ UNCHANGED <<inlineVars, storeVars, component, coreVars, managerAlive, shardDb, pc, job, chan, nextId,
                   issued, results, executed, lost>>

\* Shard::run, lines 43-46, None: the channel is closed and empty.
Shard_recv_none(s) ==
    /\ component = "mailbox"
    /\ shardState[s] = "recv"
    /\ mailbox[s] = <<>>
    /\ ~managerAlive
    /\ shardState' = [shardState EXCEPT ![s] = "stopped"]
    /\ UNCHANGED <<inlineVars, storeVars, component, coreVars, managerAlive, mailbox, cur, shardDb, pc, job, chan,
                   nextId, issued, results, executed, lost>>

\* Shard::handle_job: the store after the insert.
handle_job_db(store, j) ==
    [k \in DOMAIN store \cup {j.entry.key} |->
        IF k = j.entry.key THEN j.entry ELSE store[k]]

\* Shard::handle_job: the oneshot channel after response.send(..); a send to a
\* dropped receiver fails and changes nothing.
handle_job_reply(c, s, j) ==
    IF c.state = "open" THEN [state |-> "sent", shard |-> s, key |-> j.entry.key] ELSE c

\* The state run is in once the match arm of a job is done: the function body
\* ends there, so run returns.
after_job == "stopped"

\* Dropping a receiver drops the jobs still queued, and with each its oneshot
\* sender.
drop_queued(ch, queue) ==
    [i \in JobIds |->
        IF (\E n \in 1..Len(queue) : queue[n].id = i) /\ ch[i].state = "open"
        THEN [ch[i] EXCEPT !.state = "txDropped"] ELSE ch[i]]

\* Shard::run, lines 36-42: handle_job, then whatever follows the match.
Shard_handle_job(s) ==
    /\ component = "mailbox"
    /\ shardState[s] = "handling"
    /\ \E j \in cur[s] :
        /\ shardDb' = [shardDb EXCEPT ![s] = handle_job_db(@, j)]
        /\ executed' = Append(executed, [id |-> j.id, shard |-> s])
        /\ cur' = [cur EXCEPT ![s] = @ \ {j}]
        /\ shardState' = [shardState EXCEPT ![s] = after_job]
        /\ LET replied == [chan EXCEPT ![j.id] = handle_job_reply(@, s, j)] IN
            IF after_job = "stopped"
            THEN /\ chan' = drop_queued(replied, mailbox[s])
                 /\ lost' = lost \cup
                       {i \in JobIds : /\ \E n \in 1..Len(mailbox[s]) : mailbox[s][n].id = i
                                       /\ chan[i].state = "open"}
                 /\ mailbox' = [mailbox EXCEPT ![s] = <<>>]
            ELSE /\ chan' = replied
                 /\ UNCHANGED <<lost, mailbox>>
    /\ UNCHANGED <<inlineVars, storeVars, component, coreVars, managerAlive, pc, job, nextId, issued, results>>

MailboxNext ==
    \/ \E d \in Dispatchers : dispatch_begin(d) \/ dispatch_suspend(d) \/ dispatch_send(d)
    \/ \E d \in Dispatchers : dispatch_await(d) \/ dispatch_cancel(d)
    \/ manager_drop
    \/ \E s \in Shards : Shard_recv(s) \/ Shard_recv_none(s) \/ Shard_handle_job(s)

\* ------------------------------------------------------------ inline shard
\* fractonkv-core/src/shard/shard.rs: a shard is one thread with a
\* current-thread runtime; its connection futures share db through a RefCell.
Conns == 1..NumConns

\* The command names of the registry the commands macro reads.
CommandNames == {"GET", "SET"}

\* convert_case's Pascal case of a command name: the variant identifier.
PascalCase(n) == CASE n = "GET" -> "Get" [] n = "SET" -> "Set"

\* The identifiers of the variants of CommandKind.
Variants == {PascalCase(n) : n \in CommandNames}

\* str::to_ascii_uppercase, on the command tokens of the model.
to_ascii_uppercase(t) ==
    CASE t \in {"get", "Get", "GET"} -> "GET"
      [] t \in {"set", "Set", "SET"} -> "SET"
      [] t \in {"nope", "NOPE"} -> "NOPE"
      [] OTHER -> t

\* A command token that is not valid UTF-8.
NonUtf8 == "<0xff>"

FrameOk(c) == [ok |-> TRUE, cmd |-> c, err |-> ""]
FrameErr(e) == [ok |-> FALSE, cmd |-> "", err |-> e]

\* CommandKind::from_frame.  The derived FromStr matches a variant by its
\* identifier.
from_frame(frame) ==
    IF frame.kind # "Array" THEN FrameErr("InvalidFrame")
    ELSE IF frame.items = <<>> THEN FrameErr("MissingCommand")
    ELSE LET first == frame.items[1] IN
         IF first.kind \notin {"BlobString", "SimpleString"} THEN FrameErr("InvalidFrame")
         ELSE IF first.data = NonUtf8 THEN FrameErr("Utf8Error")
         ELSE IF to_ascii_uppercase(first.data) \in Variants
              THEN FrameOk(to_ascii_uppercase(first.data))
              ELSE FrameErr("UnknownCommand")

\* handle_frame(frame, db): the response, or the panic of unwrap() on an Err.
handle_frame(frame, store) ==
    IF frame.kind # "Array" \/ frame.items = <<>>
    THEN [panic |-> FALSE, response |-> SimpleError("ERR invalid frame")]
    ELSE IF ~from_frame(frame).ok
         THEN [panic |-> TRUE, response |-> Null]
         ELSE [panic |-> FALSE, response |-> SimpleError("ERR command not implemented")]

\* The request frames of the model's clients.
ClientFrames ==
    { Array(<<BlobString("GET"), BlobString("a")>>),
      Array(<<BlobString("nope")>>),
      Array(<<BlobString(NonUtf8)>>),
      Array(<<>>),
      BlobString("a") }

InlineStart ==
    /\ connState = [c \in Conns |-> "reading"]
    /\ connFrame = [c \in Conns |-> Null]
    /\ inbox = [c \in Conns |-> <<>>]
    /\ outbox = [c \in Conns |-> <<>>]
    /\ sent = 0
    /\ borrows = {}
    /\ polling = 0
    /\ shardPanic = "none"

InlineIdle ==
    /\ connState = <<>>
    /\ connFrame = <<>>
    /\ inbox = <<>>
    /\ outbox = <<>>
    /\ sent = 0
    /\ borrows = {}
    /\ polling = 0
    /\ shardPanic = "none"

\* A client writes a request frame to its connection.
client_send(c) ==
    /\ component = "inline"
    /\ connState[c] # "closed"
    /\ sent < MaxFrames
    /\ \E f \in ClientFrames : inbox' = [inbox EXCEPT ![c] = Append(@, f)]
    /\ sent' = sent + 1
    /\ UNCHANGED <<storeVars, component, coreVars, mailboxVars, connState, connFrame, outbox,
                   borrows, polling, shardPanic>>

\* handle_connection, lines 144-150: framed.next() yields a frame and
\* self.db.borrow_mut() is evaluated; it panics when db is borrowed.
conn_next(c) ==
    /\ component = "inline"
    /\ shardPanic = "none"
    /\ polling = 0
    /\ connState[c] = "reading"
    /\ inbox[c] # <<>>
    /\ connFrame' = [connFrame EXCEPT ![c] = Head(inbox[c])]
    /\ inbox' = [inbox EXCEPT ![c] = Tail(@)]
    /\ polling' = c
    /\ IF borrows # {}
       THEN /\ shardPanic' = "BorrowMutError"
            /\ UNCHANGED <<borrows, connState>>
       ELSE /\ borrows' = borrows \cup {c}
            /\ connState' = [connState EXCEPT ![c] = "handling"]
            /\ UNCHANGED shardPanic
    /\ UNCHANGED <<storeVars, component, coreVars, mailboxVars, outbox, sent>>

\* Mutant: the RefMut is bound to a variable of the loop body, so it lives
\* across the await of framed.send.
conn_handle_frame_hold(c) ==
    /\ component = "inline"
    /\ shardPanic = "none"
    /\ polling = c
    /\ connState[c] = "handling"
    /\ LET r == handle_frame(connFrame[c], db) IN
        /\ shardPanic' = IF r.panic THEN "unwrap" ELSE "none"
        /\ connFrame' = [connFrame EXCEPT ![c] = r.response]
        /\ borrows' = IF r.panic THEN borrows \ {c} ELSE borrows
        /\ connState' = [connState EXCEPT ![c] = IF r.panic THEN "closed" ELSE "sending"]
        /\ polling' = IF r.panic THEN c ELSE 0
    /\ UNCHANGED <<storeVars, component, coreVars, mailboxVars, inbox, outbox, sent>>

\* handle_connection, line 150: handle_frame runs with the RefMut, which is a
\* temporary of the let statement and is dropped at its end; the future then
\* suspends in framed.send.  A panic unwinds the shard's thread.
conn_handle_frame(c) ==
    /\ component = "inline"
    /\ shardPanic = "none"
    /\ polling = c
    /\ connState[c] = "handling"
    /\ LET r == handle_frame(connFrame[c], db) IN
        /\ shardPanic' = IF r.panic THEN "unwrap" ELSE "none"
        /\ connFrame' = [connFrame EXCEPT ![c] = r.response]
        /\ borrows' = borrows \ {c}
        /\ connState' = [connState EXCEPT ![c] = IF r.panic THEN "closed" ELSE "sending"]
        /\ polling' = IF r.panic THEN c ELSE 0
    /\ UNCHANGED <<storeVars, component, coreVars, mailboxVars, inbox, outbox, sent>>

\* handle_connection, lines 152-155: framed.send completes and the loop body
\* ends (dropping what it still holds), or the write fails and the loop breaks.
conn_send_done(c) ==
    /\ component = "inline"
    /\ shardPanic = "none"
    /\ polling = 0
    /\ connState[c] = "sending"
    /\ borrows' = borrows \ {c}
    /\ \E written_ok \in BOOLEAN :
        IF written_ok
        THEN /\ outbox' = [outbox EXCEPT ![c] = Append(@, connFrame[c])]
             /\ connState' = [connState EXCEPT ![c] = "reading"]
        ELSE /\ connState' = [connState EXCEPT ![c] = "closed"]
             /\ UNCHANGED outbox
    /\ UNCHANGED <<storeVars, component, coreVars, mailboxVars, connFrame, inbox, sent, polling,
                   shardPanic>>

\* handle_connection, line 144: framed.next() yields None, the peer has closed.
conn_eof(c) ==
    /\ component = "inline"
    /\ shardPanic = "none"
    /\ polling = 0
    /\ connState[c] = "reading"
    /\ inbox[c] = <<>>
    /\ connState' = [connState EXCEPT ![c] = "closed"]
    /\ UNCHANGED <<storeVars, component, coreVars, mailboxVars, connFrame, inbox, outbox, sent,
                   borrows, polling, shardPanic>>

InlineNext ==
    \E c \in Conns :
        client_send(c) \/ conn_next(c) \/ conn_handle_frame(c) \/ conn_send_done(c)
        \/ conn_eof(c)

\* ------------------------------------------------------------ command resolution
\* fractonkv-core/src/commands/mod.rs: CommandKind::from_frame on the frames a
\* caller can pass.
ResolveFrames ==
    {BlobString("GET"), Null, Array(<<>>), Array(<<Null>>)}
    \cup {Array(<<BlobString(n), BlobString("a")>>) : n \in {"GET", "get", "nope", NonUtf8}}
    \cup {Array(<<SimpleString(n)>>) : n \in {"SET", "Set"}}

\* A caller resolves the command of a frame.
resolve ==
    /\ component = "commands"
    /\ \E frame \in ResolveFrames :
        resolved' = resolved \cup {[frame |-> frame, res |-> from_frame(frame)]}
    /\ UNCHANGED <<storeVars, component, mailboxVars, inlineVars, startVars, ringVars,
                   engineVars, codecCall, conv>>

CommandsNext == resolve

\* ------------------------------------------------------------ engine
\* src/engine/mod.rs and src/engine/codec.rs.  The byte stream of a connection
\* is modelled line by line: "*1" is the array header "*1\r\n", "$4" the bulk
\* string header "$4\r\n" and "PING" the payload line "PING\r\n".
\* redis_protocol::resp2::types::OwnedFrame, the variants the engine touches.
OwnedSimpleString(t) == [kind |-> "SimpleString", data |-> t, items |-> <<>>]
OwnedError(t) == [kind |-> "Error", data |-> t, items |-> <<>>]
OwnedBulkString(t) == [kind |-> "BulkString", data |-> t, items |-> <<>>]
OwnedArray(xs) == [kind |-> "Array", data |-> "", items |-> xs]

\* What the peers write at once: the array [PING], the bulk string PING, an
\* array header alone, and a line that starts with no RESP type byte.
Chunks == {<<"*1", "$4", "PING">>, <<"$4", "PING">>, <<"*1">>, <<"PING">>}

DecSome(f, next) == [kind |-> "some", frame |-> f, next |-> next]
DecNone == [kind |-> "none", frame |-> Null, next |-> 0]
DecErr == [kind |-> "err", frame |-> Null, next |-> 0]

\* The RESP2 parser from line i of buf on: a frame and the line after it,
\* "none" when the lines are a proper prefix of a frame, "err" when they are
\* the prefix of no frame.  (In the model's streams a bulk string header is
\* always followed by its payload line.)
RECURSIVE decode_at(_, _)
decode_at(buf, i) ==
    IF i > Len(buf) THEN DecNone
    ELSE CASE buf[i] = "$4" ->
                  IF i + 1 > Len(buf) THEN DecNone
                  ELSE IF buf[i + 1] = "PING"
                       THEN DecSome(OwnedBulkString(buf[i + 1]), i + 2)
                       ELSE DecErr
           [] buf[i] = "*1" ->
                  LET r == decode_at(buf, i + 1) IN
                  IF r.kind = "some" THEN DecSome(OwnedArray(<<r.frame>>), r.next) ELSE r
           [] OTHER -> DecErr

\* redis_protocol::resp2::decode::decode(&buf): Ok(Some((frame, consumed))),
\* Ok(None) or Err.
decode(buf) ==
    LET r == decode_at(buf, 1) IN
    [kind |-> r.kind, frame |-> r.frame, consumed |-> IF r.kind = "some" THEN r.next - 1 ELSE 0]

\* Mutant: a frame that is not an array falls through to the reply for an
\* unknown command.
engine_handle_frame_unknown(frame) ==
    IF frame.kind = "Array" /\ frame.items # <<>>
       /\ frame.items[1].kind \in {"BulkString", "SimpleString"}
       /\ to_ascii_uppercase(frame.items[1].data) = "PING"
    THEN OwnedSimpleString("PONG")
    ELSE OwnedError("ERR unknown command")

\* handle_frame of the engine: the reply it writes.
engine_handle_frame(frame) ==
    IF frame.kind = "Array"
    THEN LET cmd == IF frame.items # <<>>
                       /\ frame.items[1].kind \in {"BulkString", "SimpleString"}
                    THEN frame.items[1].data ELSE "" IN
         IF to_ascii_uppercase(cmd) = "PING"
         THEN OwnedSimpleString("PONG")
         ELSE OwnedError("ERR unknown command")
    ELSE OwnedError("ERR invalid frame")

\* The decode loop of one iteration, from offset on: how it ends ("done" at
\* the end of buf, "break" on Err, "panic" at todo!() on Ok(None), "return"
\* when writing a reply fails), the offset reached and the replies written.
\* write_ok: the writes of this iteration succeed.
RECURSIVE drain(_, _, _, _)
drain(buf, offset, write_ok, replies) ==
    IF offset >= Len(buf)
    THEN [end |-> "done", offset |-> offset, replies |-> replies]
    ELSE LET r == decode(SubSeq(buf, offset + 1, Len(buf))) IN
         CASE r.kind = "some" ->
                  IF write_ok
                  THEN drain(buf, offset + r.consumed, write_ok,
                             Append(replies, engine_handle_frame(r.frame)))
                  ELSE [end |-> "return", offset |-> offset + r.consumed,
                        replies |-> replies]
           [] r.kind = "err" -> [end |-> "break", offset |-> offset, replies |-> replies]
           [] r.kind = "none" -> [end |-> "panic", offset |-> offset, replies |-> replies]

NewConn == [state |-> "open", buf |-> <<>>, out |-> <<>>]
NewSock == [rx |-> <<>>]
NoCodecCall ==
    [called |-> FALSE, src |-> <<>>, res |-> "", err |-> "", frame |-> Null, after |-> <<>>]

EngineStart ==
    /\ engConn = [c \in Conns |-> NewConn]
    /\ engSock = [c \in Conns |-> NewSock]
    /\ engSent = 0

EngineIdle ==
    /\ engConn = <<>>
    /\ engSock = <<>>
    /\ engSent = 0

\* The peer of connection c writes a chunk.
peer_write(c) ==
    /\ component = "engine"
    /\ engConn[c].state = "open"
    /\ engSent < MaxFrames
    /\ \E chunk \in Chunks : engSock' = [engSock EXCEPT ![c].rx = @ \o chunk]
    /\ engSent' = engSent + 1
    /\ UNCHANGED <<storeVars, component, mailboxVars, inlineVars, startVars, ringVars,
                   resolved, codecCall, conv, engConn>>

\* The check at the top of the connection loop.
over_cap(buf) == Len(buf) >= MAX_REQ_BYTES

\* The connection loop, the branch of the size check: the task writes the
\* error, shuts the stream down and ends.
conn_too_large(c) ==
    /\ component = "engine"
    /\ engConn[c].state = "open"
    /\ over_cap(engConn[c].buf)
    /\ engConn' = [engConn EXCEPT ![c].state = "closed",
                                  ![c].out = Append(@, OwnedError("ERR request too large"))]
    /\ UNCHANGED <<storeVars, component, mailboxVars, inlineVars, startVars, ringVars,
                   resolved, codecCall, conv, engSock, engSent>>

\* What timeout(IDLE_READ_TIMEOUT, stream.read_buf(&mut buf)) can yield on
\* socket s: bytes, or with nothing to read the end of the stream (the peer
\* has shut down its side) or the timeout, or an I/O error.
ReadOutcomes(s) ==
    (IF s.rx # <<>> THEN {"data"} ELSE {"eof", "timeout"}) \cup {"error"}

\* One iteration of the connection loop from the read on, for one outcome of
\* the read: the read, the decode loop with handle_frame, and
\* buf.advance(offset).  A panic ends the task of this connection, which
\* drops its stream and buffer.
conn_iteration(c, outcome, write_ok) ==
    /\ component = "engine"
    /\ engConn[c].state = "open"
    /\ ~over_cap(engConn[c].buf)
    /\ outcome \in ReadOutcomes(engSock[c])
    /\ LET n == IF outcome = "data"
                THEN IF Len(engSock[c].rx) < READ_BUF_INIT
                     THEN Len(engSock[c].rx) ELSE READ_BUF_INIT
                ELSE 0
           buf1 == engConn[c].buf \o SubSeq(engSock[c].rx, 1, n)
           d == drain(buf1, 0, write_ok, <<>>)
       IN
        /\ engSock' = [engSock EXCEPT ![c].rx = SubSeq(@, n + 1, Len(@))]
        /\ IF outcome = "eof"
           THEN engConn' = [engConn EXCEPT ![c].state = "closed"]
           ELSE engConn' = [engConn EXCEPT
                    ![c].state = CASE d.end = "panic" -> "panicked"
                                   [] d.end = "return" -> "closed"
                                   [] OTHER -> "open",
                    ![c].buf = IF d.end \in {"panic", "return"} THEN <<>>
                               ELSE SubSeq(buf1, d.offset + 1, Len(buf1)),
                    ![c].out = @ \o d.replies]
    /\ UNCHANGED <<storeVars, component, mailboxVars, inlineVars, startVars, ringVars,
                   resolved, codecCall, conv, engSent>>

conn_read(c) ==
    \E outcome \in {"data", "eof", "timeout", "error"}, write_ok \in BOOLEAN :
        conn_iteration(c, outcome, write_ok)

EngineNext ==
    \E c \in Conns : peer_write(c) \/ conn_too_large(c) \/ conn_read(c)

\* RedisCodec::decode(src): the result and src afterwards.  decode_bytes_mut
\* splits the bytes of the frame it returns off src.
RedisCodec_decode(src) ==
    IF Len(src) > MAX_REQ_BYTES
    THEN [res |-> "Err", err |-> "request too large", frame |-> Null, after |-> src]
    ELSE IF src = <<>>
    THEN [res |-> "None", err |-> "", frame |-> Null, after |-> src]
    ELSE LET r == decode(src) IN
         CASE r.kind = "some" ->
                  [res |-> "Some", err |-> "", frame |-> r.frame,
                   after |-> SubSeq(src, r.consumed + 1, Len(src))]
           [] r.kind = "none" -> [res |-> "None", err |-> "", frame |-> Null, after |-> src]
           [] r.kind = "err" ->
                  [res |-> "Err", err |-> "InvalidData", frame |-> Null, after |-> src]

\* The buffers a Framed transport hands to the codec: what peers can have
\* written, cut anywhere, up to one line past the maximum.
CodecInputs ==
    LET Written == {a \o b \o c :
                       a \in Chunks, b \in Chunks \cup {<<>>}, c \in Chunks \cup {<<>>}}
    IN UNION {{SubSeq(w, 1, n) : n \in 0..Len(w)} : w \in Written}
       \cap UNION {[1..n -> {"*1", "$4", "PING"}] : n \in 0..(MAX_REQ_BYTES + 1)}

\* A transport calls the codec on its read buffer.
codec_decode ==
    /\ component = "codec"
    /\ \E src \in CodecInputs :
        LET r == RedisCodec_decode(src) IN
        codecCall' = [called |-> TRUE, src |-> src, res |-> r.res, err |-> r.err,
                      frame |-> r.frame, after |-> r.after]
    /\ UNCHANGED <<storeVars, component, mailboxVars, inlineVars, startVars, ringVars,
                   resolved, engineVars, conv>>

CodecNext == codec_decode

\* ------------------------------------------------------------ hash ring
\* fractonkv-core/src/shard/hasher.rs.  XxHash64 with a seed, fed str::hash's
\* bytes (the text and a final 0xff): the 64-bit results for the labels and
\* keys of the model, as four 16-bit digits, most significant first.
XxHash64_seed0(t) ==
    CASE t = "0-0" -> <<7734, 21496, 60257, 59651>>
      [] t = "0-1" -> <<45418, 60722, 26475, 42735>>
      [] t = "0-2" -> <<23961, 44659, 48572, 63601>>
      [] t = "0-3" -> <<31148, 40112, 31536, 52277>>
      [] t = "1-0" -> <<26023, 12307, 34956, 39525>>
      [] t = "1-1" -> <<62519, 43879, 57783, 45231>>
      [] t = "1-2" -> <<20256, 41930, 15666, 46070>>
      [] t = "1-3" -> <<1705, 39541, 33386, 44712>>
      [] t = "2-0" -> <<48766, 8404, 23571, 27108>>
      [] t = "2-1" -> <<44001, 37488, 10360, 33035>>
      [] t = "2-2" -> <<56046, 43846, 48590, 17363>>
      [] t = "2-3" -> <<32529, 7013, 59214, 34819>>
      [] t = "3-0" -> <<8247, 62521, 16958, 4155>>
      [] t = "3-1" -> <<29862, 47000, 14307, 15093>>
      [] t = "3-2" -> <<27999, 16954, 44208, 41996>>
      [] t = "3-3" -> <<15859, 33966, 64681, 16304>>
      [] t = "4-0" -> <<23214, 20452, 48335, 59348>>
      [] t = "4-1" -> <<62107, 3780, 58905, 17719>>
      [] t = "4-2" -> <<31484, 49485, 19080, 8073>>
      [] t = "4-3" -> <<36389, 22488, 64593, 52409>>
      [] t = "a" -> <<16373, 138, 20554, 21120>>
      [] t = "b" -> <<2411, 40512, 43751, 27268>>
      [] t = "y" -> <<61273, 37598, 53158, 4175>>

XxHash64_seed1(t) ==
    CASE t = "0-0" -> <<58318, 2949, 52528, 44703>>
      [] t = "0-1" -> <<16490, 27740, 19990, 3184>>
      [] t = "0-2" -> <<15888, 1142, 48503, 59005>>
      [] t = "0-3" -> <<47645, 26288, 23023, 47599>>
      [] t = "1-0" -> <<29616, 48660, 11373, 19333>>
      [] t = "1-1" -> <<16675, 45431, 12140, 27724>>
      [] t = "1-2" -> <<21770, 1425, 27384, 26569>>
      [] t = "1-3" -> <<64829, 26232, 53122, 11999>>
      [] t = "2-0" -> <<5745, 65145, 59016, 52110>>
      [] t = "2-1" -> <<38366, 11801, 15972, 25133>>
      [] t = "2-2" -> <<31700, 47054, 7790, 3495>>
      [] t = "2-3" -> <<57938, 44668, 27100, 33442>>
      [] t = "3-0" -> <<18061, 43245, 33923, 52332>>
      [] t = "3-1" -> <<23202, 4308, 34099, 13577>>
      [] t = "3-2" -> <<47431, 63207, 30706, 45076>>
      [] t = "3-3" -> <<46023, 47145, 64447, 4420>>
      [] t = "4-0" -> <<50971, 46415, 11203, 34235>>
      [] t = "4-1" -> <<20628, 3007, 13263, 45867>>
      [] t = "4-2" -> <<19212, 14239, 15225, 6974>>
      [] t = "4-3" -> <<28297, 30856, 55550, 56174>>
      [] t = "a" -> <<25600, 50759, 6855, 776>>
      [] t = "b" -> <<52033, 48345, 14526, 22269>>
      [] t = "y" -> <<14378, 47827, 29148, 58398>>

XxHash64(t, seed) == IF seed = 0 THEN XxHash64_seed0(t) ELSE XxHash64_seed1(t)

\* The random states a process can start with.
Seeds == {0, 1}

\* u64 comparison on the digits.
RECURSIVE HashLess(_, _)
HashLess(x, y) ==
    IF x = <<>> THEN FALSE
    ELSE IF Head(x) # Head(y) THEN Head(x) < Head(y)
    ELSE HashLess(Tail(x), Tail(y))
HashLeq(x, y) == x = y \/ HashLess(x, y)

\* A hasher keyed by the random state of the process.
hash_random_state(t) == XxHash64(t, randomSeed)

\* ConsistentHashRing::hash: XxHash64::with_seed(0).
hash(t) == XxHash64(t, 0)

\* The keys routed in the model: "0-0" is also the label of a virtual node,
\* "a" falls between entries and "y" past the last entry of some rings.
RouteKeys == {"a", "y", "0-0"}

\* BTreeMap::insert on the ring, kept as the sequence of its entries in key
\* order: an entry with the same hash is replaced.
RECURSIVE insert(_, _, _)
insert(ring, h, id) ==
    IF ring = <<>> THEN <<[hash |-> h, id |-> id]>>
    ELSE IF Head(ring).hash = h THEN <<[hash |-> h, id |-> id]>> \o Tail(ring)
    ELSE IF HashLess(h, Head(ring).hash) THEN <<[hash |-> h, id |-> id]>> \o ring
    ELSE <<Head(ring)>> \o insert(Tail(ring), h, id)

\* format!("{}-{}", id, vnode_id)
vnode_key(id, vnode_id) == to_string(id) \o "-" \o to_string(vnode_id)

\* ConsistentHashRing::new, the inner loop from vnode_id on.
RECURSIVE new_vnodes(_, _, _, _)
new_vnodes(ring, id, vnode_id, vnodes) ==
    IF vnode_id >= vnodes THEN ring
    ELSE new_vnodes(insert(ring, hash(vnode_key(id, vnode_id)), id), id, vnode_id + 1, vnodes)

\* ConsistentHashRing::new, the outer loop over the remaining shard ids.
RECURSIVE new_ids(_, _, _)
new_ids(ring, shard_ids, vnodes) ==
    IF shard_ids = <<>> THEN ring
    ELSE new_ids(new_vnodes(ring, Head(shard_ids), 0, vnodes), Tail(shard_ids), vnodes)

\* ConsistentHashRing::new
new(shard_ids, vnodes) == new_ids(<<>>, shard_ids, vnodes)

\* self.ring.range(hash..).next(): the first entry, in key order, at or after
\* hash; 0 when there is none.
RECURSIVE range_next(_, _, _)
range_next(ring, h, n) ==
    IF n > Len(ring) THEN 0
    ELSE IF HashLeq(h, ring[n].hash) THEN n
    ELSE range_next(ring, h, n + 1)

\* range(hash..) taken as the entries strictly after hash.
RECURSIVE range_next_strict(_, _, _)
range_next_strict(ring, h, n) ==
    IF n > Len(ring) THEN 0
    ELSE IF HashLess(h, ring[n].hash) THEN n
    ELSE range_next_strict(ring, h, n + 1)

\* get_shard with the strict range.
get_shard_strict(ring, key) ==
    LET n == range_next_strict(ring, hash(key), 1) IN
    IF n # 0 THEN [panic |-> FALSE, shard |-> ring[n].id]
    ELSE IF ring # <<>> THEN [panic |-> FALSE, shard |-> ring[1].id]
    ELSE [panic |-> TRUE, shard |-> 0]

\* ConsistentHashRing::get_shard: the shard id, or the panic of unwrap() on
\* the empty ring.
get_shard(ring, key) ==
    LET n == range_next(ring, hash(key), 1) IN
    IF n # 0 THEN [panic |-> FALSE, shard |-> ring[n].id]
    ELSE IF ring # <<>> THEN [panic |-> FALSE, shard |-> ring[1].id]
    ELSE [panic |-> TRUE, shard |-> 0]

\* Lists of shard ids a ring is built from.
IdLists ==
    {<<>>} \cup {<<i>> : i \in 0..NumShards} \cup {<<i, j>> : i, j \in 0..NumShards}

NoRing == [built |-> FALSE, shard_ids |-> <<>>, vnodes |-> 0, ring |-> <<>>]

RingStart ==
    /\ ringState = NoRing
    /\ routed = {}
    /\ randomSeed \in Seeds

RingIdle ==
    /\ ringState = NoRing
    /\ routed = {}
    /\ randomSeed = 0

\* The process constructs its ring; routed keeps the calls made on rings built
\* from the same inputs.
ring_new ==
    /\ component = "ring"
    /\ ~ringState.built
    /\ \E shard_ids \in IdLists, vnodes \in 0..Vnodes :
        /\ ringState' = [built |-> TRUE, shard_ids |-> shard_ids, vnodes |-> vnodes,
                         ring |-> new(shard_ids, vnodes)]
        /\ routed' = IF shard_ids = ringState.shard_ids /\ vnodes = ringState.vnodes
                     THEN routed ELSE {}
    /\ UNCHANGED <<storeVars, component, mailboxVars, inlineVars, frontVars, startVars, randomSeed>>

\* A caller routes a key on the ring.
ring_get_shard ==
    /\ component = "ring"
    /\ ringState.built
    /\ \E key \in RouteKeys :
        LET r == get_shard(ringState.ring, key) IN
        routed' = routed \cup {[key |-> key, panic |-> r.panic, shard |-> r.shard,
                                seed |-> randomSeed]}
    /\ UNCHANGED <<storeVars, component, mailboxVars, inlineVars, frontVars, startVars, ringState,
                   randomSeed>>

\* The process ends and a new one starts, with a new random state and no ring
\* yet.
process_restart ==
    /\ component = "ring"
    /\ ringState.built
    /\ ringState' = [ringState EXCEPT !.built = FALSE, !.ring = <<>>]
    /\ randomSeed' \in Seeds
    /\ UNCHANGED <<storeVars, component, mailboxVars, inlineVars, frontVars, startVars, routed>>

RingNext == ring_new \/ ring_get_shard \/ process_restart

\* ------------------------------------------------------------ ShardManager::start
\* fractonkv-core/src/shard/manager.rs and Shard::run of shard.rs.
\* ShardJob is a String.
ShardJobs == Keys

NoManager == [started |-> FALSE, num_shards |-> 0, senders |-> <<>>]
NoSend == [shard |-> 0, job |-> "", ok |-> FALSE, sent |-> FALSE]
NoRoute == [key |-> "", panic |-> FALSE, shard |-> 0]

StartInit0 ==
    /\ mgr = NoManager
    /\ threads = <<>>
    /\ sendLast = NoSend
    /\ startRing = <<>>
    /\ startRoute = NoRoute

\* 0..=num_shards, collected.
RECURSIVE range_inclusive(_, _)
range_inclusive(lo, hi) == IF lo > hi THEN <<>> ELSE <<lo>> \o range_inclusive(lo + 1, hi)

\* ShardManager::new(num_shards) followed by start(): the ring, one channel
\* per shard, one thread per shard.  Each receiver is bound to _rx in the
\* spawning loop and dropped at the end of its iteration.
start ==
    /\ component = "start"
    /\ ~mgr.started
    /\ \E num_shards \in 1..NumShards :
        /\ startRing' = new(range_inclusive(0, num_shards), Vnodes)
        /\ mgr' = [started |-> TRUE, num_shards |-> num_shards,
                   senders |-> [i \in 1..num_shards |-> "rxDropped"]]
        /\ threads' = [i \in 0..(num_shards - 1) |-> "spawned"]
    /\ UNCHANGED <<storeVars, component, mailboxVars, inlineVars, frontVars, ringVars, sendLast,
                   startRoute>>

\* Shard::run on its thread: bind 127.0.0.1:6380 and listen; bind fails, and
\* unwrap() panics, when another shard already listens there.
Shard_run(i) ==
    /\ component = "start"
    /\ threads[i] = "spawned"
    /\ threads' = [threads EXCEPT ![i] =
           IF \E j \in DOMAIN threads : threads[j] = "listening"
           THEN "panicked" ELSE "listening"]
    /\ UNCHANGED <<storeVars, component, mailboxVars, inlineVars, frontVars, ringVars, mgr, sendLast,
                   startRing, startRoute>>

\* A job is sent on senders[i]: send fails when the receiver is dropped.
sender_send(i) ==
    /\ component = "start"
    /\ mgr.started
    /\ \E j \in ShardJobs :
        sendLast' = [shard |-> i, job |-> j, ok |-> mgr.senders[i + 1] = "open",
                     sent |-> TRUE]
    /\ UNCHANGED <<storeVars, component, mailboxVars, inlineVars, frontVars, ringVars, mgr, threads,
                   startRing, startRoute>>

\* A key is routed on the ring that start constructed.
start_get_shard ==
    /\ component = "start"
    /\ mgr.started
    /\ \E key \in RouteKeys :
        LET r == get_shard(startRing, key) IN
        startRoute' = [key |-> key, panic |-> r.panic, shard |-> r.shard]
    /\ UNCHANGED <<storeVars, component, mailboxVars, inlineVars, frontVars, ringVars, mgr, threads,
                   sendLast, startRing>>

StartNext ==
    \/ start
    \/ start_get_shard
    \/ \E i \in DOMAIN threads : Shard_run(i)
    \/ \E i \in 0..(mgr.num_shards - 1) : sender_send(i)

\* ------------------------------------------------------------ value conversion
\* fractonkv-core/src/shard/types.rs: a stored value is converted to its wire
\* frame and a frame is read back as a value.
SeqsUpTo(S, n) == UNION {[1..m -> S] : m \in 0..n}

\* The sequences without a repeated element.
Distinct(xs) == \A i, j \in DOMAIN xs : xs[i] = xs[j] => i = j

\* The stored values converted: the strings, hashes with up to MaxElems
\* fields in every iteration order, lists of up to MaxElems strings and empty
\* lists, sets and sorted sets of up to MaxElems members.
StoredValues ==
    {String(v) : v \in Vals} \cup {BulkString(v) : v \in Vals}
    \cup {Hash(ps) : ps \in {qs \in SeqsUpTo(Vals \X Vals, MaxElems) :
                                Distinct([i \in DOMAIN qs |-> qs[i][1]])}}
    \cup {List(xs) : xs \in SeqsUpTo({String(v) : v \in Vals}
                                      \cup {BulkString(v) : v \in Vals}
                                      \cup {List(<<>>)}, MaxElems)}
    \cup {DataKind_Set(ms) : ms \in {qs \in SeqsUpTo(Vals, MaxElems) : Distinct(qs)}}
    \cup {SortedSet(ms) : ms \in SeqsUpTo(Vals, MaxElems)}

NoConv == [step |-> "none", value |-> String(""), frame |-> Null, back |-> NoKind]

\* A caller converts a stored value to its frame.
value_to_frame ==
    /\ component = "values"
    /\ \E v \in StoredValues :
        conv' = [step |-> "frame", value |-> v, frame |-> to_bytes_frame(v),
                 back |-> NoKind]
    /\ UNCHANGED <<storeVars, component, mailboxVars, inlineVars, startVars, ringVars,
                   resolved, engineVars, codecCall>>

\* A caller reads the frame back as a value.
frame_to_value ==
    /\ component = "values"
    /\ conv.step = "frame"
    /\ conv' = [conv EXCEPT !.step = "value", !.back = from_bytes_frame(conv.frame)]
    /\ UNCHANGED <<storeVars, component, mailboxVars, inlineVars, startVars, ringVars,
                   resolved, engineVars, codecCall>>

ValuesNext == value_to_frame \/ frame_to_value

\* ------------------------------------------------------------ specifications
FrontIdle == resolved = {} /\ EngineIdle /\ codecCall = NoCodecCall /\ conv = NoConv

CoreIdle == StartInit0 /\ RingIdle /\ FrontIdle

StoreInit == component = "store" /\ StoreStart /\ MailboxIdle /\ InlineIdle /\ CoreIdle
SpecStore == StoreInit /\ [][StoreNext]_vars

MailboxInit == component = "mailbox" /\ StoreIdle /\ MailboxStart /\ InlineIdle /\ CoreIdle
SpecMailbox == MailboxInit /\ [][MailboxNext]_vars

\* The runtime polls every task that can make progress: the shard tasks and
\* the pending dispatch calls.  Callers need not call or cancel, and the
\* manager need not be dropped.  Every behaviour takes finitely many steps, so
\* fairness of the union is fairness of each task.
MailboxProgress ==
    \/ \E d \in Dispatchers : dispatch_send(d) \/ dispatch_await(d)
    \/ \E s \in Shards : Shard_recv(s) \/ Shard_recv_none(s) \/ Shard_handle_job(s)
MailboxFairness == WF_vars(MailboxProgress)
SpecMailboxFair == SpecMailbox /\ MailboxFairness

InlineInit == component = "inline" /\ StoreIdle /\ MailboxIdle /\ InlineStart /\ CoreIdle
SpecInline == InlineInit /\ [][InlineNext]_vars

RingInit ==
    /\ component = "ring"
    /\ StoreIdle /\ MailboxIdle /\ InlineIdle /\ StartInit0 /\ RingStart /\ FrontIdle
SpecRing == RingInit /\ [][RingNext]_vars

StartInit ==
    /\ component = "start"
    /\ StoreIdle /\ MailboxIdle /\ InlineIdle /\ CoreIdle
SpecStart == StartInit /\ [][StartNext]_vars

CommandsInit ==
    /\ component = "commands"
    /\ StoreIdle /\ MailboxIdle /\ InlineIdle /\ CoreIdle
SpecCommands == CommandsInit /\ [][CommandsNext]_vars

EngineInit ==
    /\ component = "engine"
    /\ StoreIdle /\ MailboxIdle /\ InlineIdle /\ StartInit0 /\ RingIdle
    /\ resolved = {} /\ EngineStart /\ codecCall = NoCodecCall /\ conv = NoConv
SpecEngine == EngineInit /\ [][EngineNext]_vars

CodecInit ==
    /\ component = "codec"
    /\ StoreIdle /\ MailboxIdle /\ InlineIdle /\ CoreIdle
SpecCodec == CodecInit /\ [][CodecNext]_vars

ValuesInit ==
    /\ component = "values"
    /\ StoreIdle /\ MailboxIdle /\ InlineIdle /\ CoreIdle
SpecValues == ValuesInit /\ [][ValuesNext]_vars

\* The transport side of the binary: the connection tasks and the codec.
TransportInit == EngineInit \/ CodecInit
TransportNext == EngineNext \/ CodecNext
SpecTransport == TransportInit /\ [][TransportNext]_vars

\* The two request loops: the core shard's and the engine's.
FrontendsInit == InlineInit \/ EngineInit
FrontendsNext == InlineNext \/ EngineNext
SpecFrontends == FrontendsInit /\ [][FrontendsNext]_vars

\* Both shapes of a shard: the mailbox task and the inline connection loop.
ShardsInit == MailboxInit \/ InlineInit
ShardsNext == MailboxNext \/ InlineNext
SpecShards == ShardsInit /\ [][ShardsNext]_vars

\* ------------------------------------------------------------ claims
\* The dispatchers other than d have dispatched nothing, d has awaited every
\* call it made, and every command of d went to the same shard.
AloneOnOneShard(d) ==
    /\ \A e \in Dispatchers \ {d} : issued[e] = <<>>
    /\ \A i \in 1..Len(results[d]) : results[d][i] # Cancelled
    /\ \A i, j \in 1..Len(issued[d]) : issued[d][i].shard = issued[d][j].shard

\* C1: for one connection that dispatches its commands serially, all to one
\* shard, every dispatch call that has returned returned a reply, and the i-th
\* reply answers the i-th command.
C1_RepliesInOrder ==
    component = "mailbox" =>
        \A d \in Dispatchers :
            AloneOnOneShard(d) =>
                \A i \in 1..Len(results[d]) :
                    /\ results[d][i].ok
                    /\ results[d][i].key = issued[d][i].key
                    /\ results[d][i].shard = issued[d][i].shard

\* C2: a shard leaves Running only after its mailbox is closed: while a
\* sender exists, no shard has stopped.
C2_RunningWhileSenders ==
    component = "mailbox" =>
        \A s \in Shards : shardState[s] = "stopped" => ~managerAlive

\* C3: at most one command executes against a shard's store at a time; in the
\* inline shard the RefMut of db is never requested while another is held.
C3_OneExecution ==
    /\ component = "mailbox" => \A s \in Shards : Cardinality(cur[s]) <= 1
    /\ component = "inline" =>
          /\ Cardinality(borrows) <= 1
          /\ shardPanic # "BorrowMutError"
          /\ \A c \in Conns : c \in borrows => polling = c

\* C3 witness: a connection executes its frame while another connection is
\* suspended in its send and a third frame waits to be read.
C3_Witness ==
    /\ component = "inline"
    /\ \E c, c2 \in Conns :
        /\ c # c2
        /\ borrows = {c}
        /\ connState[c2] = "sending"
        /\ inbox[c2] # <<>>

\* How often handle_job ran job i, and the shards that ran it.
Runs(i) == {n \in 1..Len(executed) : executed[n].id = i}
Target(i) ==
    CHOOSE s \in Shards :
        \E d \in Dispatchers : \E n \in 1..Len(issued[d]) :
            issued[d][n].id = i /\ issued[d][n].shard = s

\* C4: a job placed in a mailbox is executed exactly once, by the shard owning
\* the mailbox, and is never dropped unexecuted while its originator waits.
C4_ExecutedExactlyOnce ==
    component = "mailbox" =>
        /\ \A i \in JobIds : Cardinality(Runs(i)) <= 1
        /\ \A n \in 1..Len(executed) : executed[n].shard = Target(executed[n].id)
        /\ lost = {}

\* C5: SET k v without flags, then GET k with no write to k in between,
\* returns v.
C5_SetThenGet ==
    [][\A k \in Keys, v \in Vals :
          (/\ last.cmd = "SET"
           /\ last.args = <<SimpleString(k), SimpleString(v)>>
           /\ last'.cmd = "GET"
           /\ last'.args = <<SimpleString(k)>>)
          => last'.res = Ok(SimpleString(v))]_vars

\* C6: GET of a key that was never written returns null and leaves the store
\* as it was, whatever was done to other keys.
C6_GetNeverWritten ==
    \A k \in Keys :
        (last.cmd = "GET" /\ last.args = <<SimpleString(k)>> /\ k \notin written)
        => /\ last.res = Ok(Null)
           /\ db = last.before

\* C6 witness: GET a returned null with a never written, after a SET of b.
C6_Witness ==
    /\ last.cmd = "GET"
    /\ last.args = <<SimpleString("a")>>
    /\ written = {"b"}
    /\ last.res = Ok(Null)

\* The entry's absolute expiry has passed at time t (boundary included).
Expired(obj, t) == obj.ttl.some /\ obj.created_at + obj.ttl.d <= t

\* C7: GET of an entry whose expiry has passed at the time of the call
\* returns null and leaves the entry's last_accessed as it was.
C7_GetExpired ==
    \A k \in Keys :
        (/\ last.cmd = "GET"
         /\ last.args = <<SimpleString(k)>>
         /\ k \in DOMAIN last.before
         /\ Expired(last.before[k], last.t1))
        => /\ last.res = Ok(Null)
           /\ k \in DOMAIN db
           /\ db[k].last_accessed = last.before[k].last_accessed

\* C7 witness: a GET at exactly created_at + ttl, later than the entry's last
\* access, returned null.
C7_Witness ==
    \E k \in Keys :
        /\ last.cmd = "GET"
        /\ last.args = <<SimpleString(k)>>
        /\ k \in DOMAIN last.before
        /\ last.before[k].ttl.some
        /\ last.before[k].ttl.d > 0
        /\ last.before[k].created_at + last.before[k].ttl.d = last.t1
        /\ last.before[k].last_accessed < last.t1
        /\ last.res = Ok(Null)

\* C8: GET of an entry that is present and not expired sets its last_accessed
\* to the current time and returns its value in wire form.
C8_GetLive ==
    \A k \in Keys :
        (/\ last.cmd = "GET"
         /\ last.args = <<SimpleString(k)>>
         /\ k \in DOMAIN last.before
         /\ ~Expired(last.before[k], last.t1))
        => /\ last.res = Ok(to_bytes_frame(last.before[k].data))
           /\ last.before[k].data.kind = "String"
                 => last.res.frame = SimpleString(last.before[k].data.bytes)
           /\ last.before[k].data.kind = "BulkString"
                 => last.res.frame = BlobString(last.before[k].data.bytes)
           /\ k \in DOMAIN db
           /\ db[k].last_accessed = last.t2
           /\ last.t1 <= last.t2
           /\ last.t2 <= now

\* C8 witness: a GET one tick before the expiry of an entry returned its
\* value and moved last_accessed forward.
C8_Witness ==
    \E k \in Keys :
        /\ last.cmd = "GET"
        /\ last.args = <<SimpleString(k)>>
        /\ k \in DOMAIN last.before
        /\ last.before[k].ttl.some
        /\ last.t1 + 1 = last.before[k].created_at + last.before[k].ttl.d
        /\ last.before[k].last_accessed < last.t2
        /\ db[k].last_accessed = last.t2
        /\ last.res = Ok(SimpleString("1"))

\* The SET call carries flag f after its key and value.
HasFlag(args, f) == \E i \in 3..Len(args) : args[i] = SimpleString(f)

\* C9: SET with NX on a key that exists leaves the store unchanged and
\* replies null, or the prior value when GET is given too.
C9_SetNxOnExisting ==
    \A k \in Keys :
        (/\ last.cmd = "SET"
         /\ Len(last.args) >= 2
         /\ last.args[1] = SimpleString(k)
         /\ HasFlag(last.args, "NX")
         /\ k \in DOMAIN last.before)
        => /\ db = last.before
           /\ last.res = Ok(IF HasFlag(last.args, "GET")
                            THEN to_bytes_frame(last.before[k].data)
                            ELSE Null)

\* C10: SET with XX on a key that does not exist leaves the store unchanged
\* and replies null.
C10_SetXxOnMissing ==
    \A k \in Keys :
        (/\ last.cmd = "SET"
         /\ Len(last.args) >= 2
         /\ last.args[1] = SimpleString(k)
         /\ HasFlag(last.args, "XX")
         /\ k \notin DOMAIN last.before)
        => /\ db = last.before
           /\ last.res = Ok(Null)

\* C11: after SET k v EX d replied OK, a GET k before d seconds have elapsed
\* returns v, and a GET k once d or more seconds have elapsed returns null.
C11_SetExThenGet ==
    [][\A k \in Keys, v \in Vals, d \in 1..MaxTtl :
          (/\ last.cmd = "SET"
           /\ last.args = <<SimpleString(k), SimpleString(v),
                            SimpleString("EX"), SimpleString(to_string(d))>>
           /\ last.res = Ok(SimpleString("OK"))
           /\ last'.cmd = "GET"
           /\ last'.args = <<SimpleString(k)>>)
          => last'.res = Ok(IF last'.t1 < last.t1 + d
                            THEN SimpleString(v) ELSE Null)]_vars

\* C12: a SET with invalid arguments is answered with an error and leaves the
\* store unmodified.
C12_InvalidSetRejected ==
    (last.cmd = "SET" /\ last.args \in BadSetArgs)
    => /\ ~last.res.ok
       /\ db = last.before

\* C13: GET fails with WrongArity exactly when its first argument is missing
\* or is neither a simple string nor a bulk string, and then leaves the store
\* unchanged; a bulk-string key is looked up.
C13_GetWrongArityIffNoKey ==
    last.cmd = "GET"
    => /\ last.res = WrongArity("GET")
          <=> (\/ last.args = <<>>
               \/ last.args[1].kind \notin {"SimpleString", "BlobString"})
       /\ last.res = WrongArity("GET") => db = last.before

\* The send of d's call meets a mailbox whose shard has terminated.
SendToStopped(d) ==
    /\ pc[d] \in {"send", "suspended"}
    /\ shardState[shard_for_key(job[d].entry.key)] = "stopped"

\* d awaits a completion channel whose sender was dropped without a reply.
ReplyDropped(d) == pc[d] = "await" /\ chan[job[d].id].state = "txDropped"

\* C14: a dispatch that sends to a terminated shard, or whose completion
\* channel is dropped without a reply, returns a failure to its caller (unless
\* the caller gives up first) and does not stay there forever; a failure is
\* never taken for a reply.
C14_DispatchFails ==
    /\ [](component = "mailbox" =>
            \A d \in Dispatchers : \A i \in 1..Len(results[d]) :
                results[d][i].ok <=> results[d][i] \notin {Failed, Cancelled})
    /\ [][component = "mailbox" =>
            \A d \in Dispatchers :
                ((SendToStopped(d) \/ ReplyDropped(d)) /\ pc'[d] # pc[d])
                => /\ pc'[d] = "idle"
                   /\ \E r \in {Failed, Cancelled} : results'[d] = Append(results[d], r)]_vars
    /\ <>[](component = "mailbox" =>
            \A d \in Dispatchers : ~(SendToStopped(d) \/ ReplyDropped(d)))

\* C14 witness: a job was dropped with its completion channel while its
\* caller waited, and the caller's call has returned the failure.
C14_Witness ==
    /\ component = "mailbox"
    /\ lost # {}
    /\ \E d \in Dispatchers :
        /\ pc[d] = "idle"
        /\ results[d] # <<>>
        /\ results[d][Len(results[d])] = Failed
        /\ issued[d][Len(issued[d])].id \in lost

\* C15: a shard that handles a job whose completion receiver is gone applies
\* the job to its store and goes back to receiving; it does not stop.
C15_ReplyDiscardedShardContinues ==
    [][component = "mailbox" =>
          \A s \in Shards : \A j \in cur[s] :
              (chan[j.id].state = "rxDropped" /\ cur'[s] = {})
              => /\ j.entry.key \in DOMAIN shardDb'[s]
                 /\ shardDb'[s][j.entry.key] = j.entry
                 /\ shardState'[s] = "recv"]_vars

\* C16: a mailbox never holds more jobs than its capacity, and a dispatch
\* suspended on a full mailbox ends, unless its caller gives up, with its job
\* enqueued.
C16_Backpressure ==
    [][component = "mailbox" =>
          /\ \A s \in Shards : Len(mailbox'[s]) <= MailboxCap
          /\ \A d \in Dispatchers :
                (/\ pc[d] = "suspended"
                 /\ pc'[d] # "suspended"
                 /\ results'[d] # Append(results[d], Cancelled))
                => /\ pc'[d] = "await"
                   /\ mailbox'[shard_for_key(job[d].entry.key)]
                         = Append(mailbox[shard_for_key(job[d].entry.key)], job[d])]_vars

\* C17: after start, every mailbox has a running shard holding its receiving
\* end, and a job sent on any of the returned senders is accepted.
C17_StartedShardsServe ==
    component = "start" =>
        /\ mgr.started =>
              /\ \A i \in 0..(mgr.num_shards - 1) :
                    /\ threads[i] # "panicked"
                    /\ mgr.senders[i + 1] = "open"
        /\ sendLast.sent => sendLast.ok

\* C18: the ring that start constructs holds only shard ids below
\* shard_count, and every id routing on it returns indexes a sender.
C18_StartRingInRange ==
    component = "start" =>
        /\ \A n \in 1..Len(startRing) : startRing[n].id \in 0..(mgr.num_shards - 1)
        /\ startRoute.key # "" => startRoute.shard + 1 \in DOMAIN mgr.senders

\* The ring entries at or after the hash of key.
AtOrAfter(ring, key) == {n \in 1..Len(ring) : HashLeq(hash(key), ring[n].hash)}

\* The entry of the smallest hash among the entries ns of ring.
Smallest(ring, ns) == CHOOSE n \in ns : \A m \in ns : HashLeq(ring[n].hash, ring[m].hash)

\* C19: on a non-empty ring, route(key) returns the shard id at the entry of
\* the smallest hash >= hash(key), and the shard id at the entry of the
\* smallest hash of the ring when there is no such entry.
C19_RouteSuccessor ==
    (component = "ring" /\ ringState.built /\ ringState.ring # <<>>) =>
        \A r \in routed :
            LET ring == ringState.ring IN
            /\ ~r.panic
            /\ r.shard = ring[Smallest(ring, IF AtOrAfter(ring, r.key) # {}
                                             THEN AtOrAfter(ring, r.key)
                                             ELSE 1..Len(ring))].id

\* C19 witness: on one ring a key was routed to the entry whose hash equals
\* its own, another key, past every entry, to the first entry, and a third,
\* between two entries, to the later one.
C19_Witness ==
    /\ component = "ring"
    /\ ringState.built
    /\ \E r1, r2, r3 \in routed :
        /\ \E n \in 1..Len(ringState.ring) :
              ringState.ring[n].hash = hash(r1.key) /\ r1.shard = ringState.ring[n].id
        /\ AtOrAfter(ringState.ring, r2.key) = {}
        /\ r2.shard = ringState.ring[1].id
        /\ \E n \in 2..Len(ringState.ring) :
              /\ HashLess(ringState.ring[n - 1].hash, hash(r3.key))
              /\ HashLess(hash(r3.key), ringState.ring[n].hash)
              /\ r3.shard = ringState.ring[n].id

\* C20: two route calls with the same key, on the same ring or on any ring
\* built from the same inputs in any process, return the same shard id, and a
\* route call leaves the ring as it is.
C20_RouteDeterministic ==
    /\ [](component = "ring" =>
            \A r1, r2 \in routed :
                r1.key = r2.key => (r1.shard = r2.shard /\ r1.panic = r2.panic))
    /\ [][ring_get_shard => ringState' = ringState]_vars

\* C20 witness: a key was routed, not to the first entry, in two processes
\* of different random states, on rings built from the same inputs.
C20_Witness ==
    /\ component = "ring"
    /\ ringState.built
    /\ Len(ringState.ring) >= 2
    /\ \E r1, r2 \in routed :
        /\ r1.key = r2.key
        /\ r1.seed # r2.seed
        /\ ~r1.panic
        /\ r1.shard # ringState.ring[1].id

\* The shard ids of a list.
Ids(shard_ids) == {shard_ids[n] : n \in DOMAIN shard_ids}

\* C21: for every list of shard ids and every vnode count that ring
\* construction accepts, each shard id of the list owns at least one entry
\* of the constructed ring.
C21_EveryShardOwnsEntry ==
    (component = "ring" /\ ringState.built) =>
        \A id \in Ids(ringState.shard_ids) :
            \E n \in 1..Len(ringState.ring) : ringState.ring[n].id = id

\* C22: ring construction never returns a ring with zero entries, so no
\* route call runs on an empty ring (and none panics).
C22_NoEmptyRing ==
    component = "ring" =>
        /\ ringState.built => ringState.ring # <<>>
        /\ \A r \in routed : ~r.panic

\* The registry names that equal the text t compared ASCII case-insensitively.
RegistryMatches(t) == {n \in CommandNames : to_ascii_uppercase(n) = to_ascii_uppercase(t)}

\* C23: command resolution fails with InvalidFrame when the frame is not an
\* array or its first element is neither a simple nor a bulk string, with
\* MissingCommand on the empty array, with UnknownCommand when the name
\* matches no registry entry, and otherwise succeeds with the command whose
\* name equals the first element compared ASCII case-insensitively.  (A name
\* that is not UTF-8 is only required to fail.)
C23_FromFrameResolves ==
    component = "commands" =>
        \A r \in resolved :
            IF r.frame.kind # "Array" THEN r.res = FrameErr("InvalidFrame")
            ELSE IF r.frame.items = <<>> THEN r.res = FrameErr("MissingCommand")
            ELSE LET first == r.frame.items[1] IN
                 IF first.kind \notin {"BlobString", "SimpleString"}
                 THEN r.res = FrameErr("InvalidFrame")
                 ELSE IF first.data = NonUtf8 THEN ~r.res.ok
                 ELSE IF RegistryMatches(first.data) = {}
                      THEN r.res = FrameErr("UnknownCommand")
                      ELSE \E n \in RegistryMatches(first.data) :
                               r.res = FrameOk(PascalCase(n))

\* The request frames that name an unknown command or carry a name that is
\* not UTF-8.
UnresolvableFrames ==
    {f \in ClientFrames : f.kind = "Array" /\ f.items # <<>>
                          /\ from_frame(f).err \in {"UnknownCommand", "Utf8Error"}
                          /\ RegistryMatches(f.items[1].data) = {}}

\* C24: a request frame naming an unknown command, or carrying a non-UTF8
\* command name, is answered with an error reply on its own connection:
\* handling it leaves the shard running and every other connection as it
\* was, and the connection goes on to send the reply and read again.
C24_UnknownCommandAnswered ==
    [][\A c \in Conns :
          (/\ component = "inline"
           /\ connState[c] = "handling"
           /\ connFrame[c] \in UnresolvableFrames
           /\ connState'[c] # "handling")
          => /\ shardPanic' = "none"
             /\ connState'[c] = "sending"
             /\ connFrame'[c].kind = "SimpleError"
             /\ \A o \in Conns \ {c} : connState'[o] = connState[o]]_vars

\* The buffer of engine connection c after the read of its next iteration.
AfterRead(c) ==
    LET rx == engSock[c].rx
        n == IF Len(rx) < READ_BUF_INIT THEN Len(rx) ELSE READ_BUF_INIT
    IN engConn[c].buf \o SubSeq(rx, 1, n)

\* The complete frames at the front of b, in order, and what follows them.
RECURSIVE Split(_)
Split(b) ==
    LET r == decode(b) IN
    IF b = <<>> \/ r.kind # "some" THEN [frames |-> <<>>, rest |-> b]
    ELSE LET t == Split(SubSeq(b, r.consumed + 1, Len(b))) IN
         [frames |-> <<r.frame>> \o t.frames, rest |-> t.rest]

\* b is a proper prefix of a valid frame; b is the prefix of no valid frame.
ProperPrefix(b) == b # <<>> /\ decode(b).kind = "none"
Malformed(b) == b # <<>> /\ decode(b).kind = "err"

\* The replies to the frames fs, in order.
Replies(fs) == [i \in 1..Len(fs) |-> engine_handle_frame(fs[i])]

C26_PartialFrameWaits ==
    [][\A c \in Conns :
          (conn_iteration(c, "data", TRUE) /\ ProperPrefix(AfterRead(c)))
          => engConn'[c] = [engConn[c] EXCEPT !.buf = AfterRead(c)]]_vars

\* C27: after the handler has processed a read that leaves k >= 1 complete
\* frames followed by a partial frame in the buffer, the k frames have been
\* answered once each, in order, and the buffer holds exactly the partial
\* frame.
C27_ExactConsumption ==
    [][\A c \in Conns :
          (/\ conn_iteration(c, "data", TRUE)
           /\ Split(AfterRead(c)).frames # <<>>
           /\ ProperPrefix(Split(AfterRead(c)).rest))
          => /\ engConn'[c].state = "open"
             /\ engConn'[c].buf = Split(AfterRead(c)).rest
             /\ engConn'[c].out = engConn[c].out \o Replies(Split(AfterRead(c)).frames)]_vars

\* C28: a connection whose buffered bytes exceed the maximum request size is
\* closed with an error at its next step, whatever the bytes are, and no
\* other connection changes; and the codec reports "request too large" for
\* exactly the buffers the connection handler's check rejects.
C28_SameCeiling ==
    /\ [][\A c \in Conns :
            (/\ component = "engine"
             /\ engConn[c].state = "open"
             /\ Len(engConn[c].buf) > MAX_REQ_BYTES
             /\ engConn'[c] # engConn[c])
            => /\ engConn'[c].state = "closed"
               /\ engConn'[c].out = Append(engConn[c].out, OwnedError("ERR request too large"))
               /\ \A o \in Conns \ {c} : engConn'[o] = engConn[o]]_vars
    /\ []((component = "codec" /\ codecCall.called)
            => ((codecCall.res = "Err" /\ codecCall.err = "request too large")
                <=> over_cap(codecCall.src)))

\* An iteration of connection c whose read ends with outcome can leave the
\* connection other than closed.
SurvivesRead(c, outcome) ==
    ENABLED (\E w \in BOOLEAN :
                conn_iteration(c, outcome, w) /\ engConn'[c].state # "closed")

\* C29: when the read of a connection ends with the idle timeout, the
\* iteration closes the connection: no iteration whose read timed out leaves
\* it open.
C29_IdleTimeoutCloses ==
    component = "engine" => \A c \in Conns : ~SurvivesRead(c, "timeout")

\* C30: when the bytes at the front of the buffer are the prefix of no valid
\* frame, or a read fails with an I/O error, the iteration terminates the
\* connection; an open connection never keeps such bytes buffered.
C30_MalformedCloses ==
    component = "engine" =>
        \A c \in Conns :
            /\ ~SurvivesRead(c, "error")
            /\ Malformed(Split(AfterRead(c)).rest) => ~SurvivesRead(c, "data")
            /\ engConn[c].state = "open" => ~Malformed(engConn[c].buf)

\* C31: a shard that terminates after its mailbox was closed leaves no job
\* behind: at the step in which run returns, no job accepted into the mailbox
\* is still queued in it.
C31_QueueDrainedAtShutdown ==
    [][\A s \in Shards :
          (component = "mailbox" /\ ~managerAlive
             /\ shardState[s] # "stopped" /\ shardState'[s] = "stopped")
            => mailbox[s] = <<>>]_vars

RECURSIVE SenderIndices(_)
SenderIndices(n) == IF n = 0 THEN <<>> ELSE Append(SenderIndices(n - 1), n - 1)

\* C33: the index dispatch computes from a key is a valid index into the
\* sender list and is the shard the consistent hash ring over those shards
\* routes the key to.
C33_DispatchFollowsRing ==
    component = "ring" =>
        \A r \in routed :
            (ringState.shard_ids = SenderIndices(NumShards) /\ ringState.vnodes >= 1)
                => /\ shard_for_key(r.key) \in Shards
                   /\ ~r.panic
                   /\ r.shard = shard_for_key(r.key)

\* C34: a job executed on shard s changes the store of s only, and only at a
\* key that shard_for_key assigns to s; and a read of a key through any
\* connection is executed against the store: the connection that handles a
\* GET request answers it with the store's reply, not with an error, and the
\* shard goes on.
C34_OwnerExecutes ==
    [][/\ \A s \in Shards :
            (component = "mailbox" /\ shardDb'[s] # shardDb[s])
              => /\ \A o \in Shards \ {s} : shardDb'[o] = shardDb[o]
                 /\ \A k \in DOMAIN shardDb'[s] :
                       (k \notin DOMAIN shardDb[s] \/ shardDb'[s][k] # shardDb[s][k])
                         => shard_for_key(k) = s
       /\ \A c \in Conns :
            (component = "inline" /\ connState[c] = "handling"
               /\ connFrame[c] = Array(<<BlobString("GET"), BlobString("a")>>)
               /\ connState'[c] # "handling")
              => /\ shardPanic' = "none"
                 /\ connFrame'[c].kind # "SimpleError"]_vars

\* C35: GET adds no key and removes none, and changes no entry's value, ttl or
\* created_at; the only field it changes is last_accessed of the entry it
\* looked up, and only when that entry is present and not expired.  An
\* expired entry is still in the store after the GET.
C35_GetOnlyTouches ==
    (component = "store" /\ last.cmd = "GET")
    => /\ DOMAIN db = DOMAIN last.before
       /\ \A k \in DOMAIN last.before :
            /\ db[k].data = last.before[k].data
            /\ db[k].ttl = last.before[k].ttl
            /\ db[k].created_at = last.before[k].created_at
            /\ db[k].last_accessed # last.before[k].last_accessed
                 => /\ last.args # <<>>
                    /\ last.args[1] = SimpleString(k)
                    /\ ~Expired(last.before[k], last.t1)

\* C35 witness: a GET found an expired entry, in a store that holds another
\* key too, and the entry is still there.
C35_Witness ==
    \E k \in Keys :
        /\ last.cmd = "GET"
        /\ last.args = <<SimpleString(k)>>
        /\ k \in DOMAIN last.before
        /\ Expired(last.before[k], last.t1)
        /\ DOMAIN db = Keys
        /\ db = last.before

\* C37: handle_set returns the simple string OK and leaves the store as it
\* was, for every argument list and every store.
C37_SetIsNoOp ==
    (component = "store" /\ last.cmd = "SET")
    => /\ last.res = Ok(SimpleString("OK"))
       /\ db = last.before

\* C37 witness: a SET of a key and a value, on a store that does not hold the
\* key, returned OK and the key is still absent.
C37_Witness ==
    /\ last.cmd = "SET"
    /\ last.args = <<SimpleString("a"), SimpleString("1")>>
    /\ last.res = Ok(SimpleString("OK"))
    /\ "a" \notin DOMAIN db
    /\ "b" \in DOMAIN db

\* C36: a connection that handles an empty array request answers it with an
\* error that is neither the invalid-frame nor the unknown-command error (the
\* missing-command error), and the shard goes on.
C36_EmptyArrayMissingCommand ==
    [][\A c \in Conns :
          (/\ component = "inline"
           /\ connState[c] = "handling"
           /\ connFrame[c] = Array(<<>>)
           /\ connState'[c] # "handling")
          => /\ shardPanic' = "none"
             /\ connFrame'[c].kind = "SimpleError"
             /\ connFrame'[c].data \notin {"ERR invalid frame", "ERR unknown command"}]_vars

\* C38: under fair scheduling of the shard tasks and the pending calls, every
\* dispatch call returns: from some point on no dispatcher is inside a call,
\* whether it was sending, suspended on a full mailbox or awaiting its reply
\* when the shard terminated.
C38_DispatchReturns ==
    <>[](component = "mailbox" => \A d \in Dispatchers : pc[d] = "idle")

\* C38 witness: a call whose job never entered the mailbox, because the shard
\* terminated before the send could complete, has returned the failure.
C38_Witness ==
    /\ component = "mailbox"
    /\ \E d \in Dispatchers :
        /\ pc[d] = "idle"
        /\ results[d] # <<>>
        /\ results[d][Len(results[d])] = Failed
        /\ LET c == issued[d][Len(issued[d])] IN
            /\ c.id \notin lost
            /\ shardState[c.shard] = "stopped"
            /\ \A n \in 1..Len(executed) : executed[n].id # c.id

\* The step is a call of handle_get (the record of the last call is that of a
\* GET made in this step), a call of handle_set.
GetStep == last'.cmd = "GET" /\ (last' # last \/ now' = now)
SetStep == last'.cmd = "SET" /\ now' = now

\* C39: expiry is permanent until the next write.  An entry that is expired
\* stays in the store and stays expired over every step that is no write (a
\* GET of any key, the passing of time), and a GET of its key in such a step
\* returns null: once a GET of k has returned null for an expired entry, so
\* does every later GET of k with no write in between.
C39_ExpiryPermanent ==
    [][(component = "store" /\ ~SetStep)
         => \A k \in DOMAIN db :
               Expired(db[k], now)
                 => /\ k \in DOMAIN db'
                    /\ Expired(db'[k], now')
                    /\ now <= now'
                    /\ (GetStep /\ last'.args = <<SimpleString(k)>>)
                         => last'.res = Ok(Null)]_vars

\* C39 witness: a GET of an entry with a positive TTL, made after the moment
\* of its expiry has passed, returned null.
C39_Witness ==
    \E k \in Keys :
        /\ last.cmd = "GET"
        /\ last.args = <<SimpleString(k)>>
        /\ k \in DOMAIN last.before
        /\ last.before[k].ttl.some
        /\ last.before[k].ttl.d > 0
        /\ last.before[k].created_at + last.before[k].ttl.d < last.t1
        /\ last.res = Ok(Null)

\* x and y are the same stored value: the same kind and the same content (a
\* hash has the same fields with the same values and a set the same members,
\* in whatever order they are iterated).
SameValue(x, y) ==
    /\ x.kind = y.kind
    /\ CASE x.kind \in {"String", "BulkString"} -> x.bytes = y.bytes
         [] x.kind = "Hash" ->
               {<<x.elems[i].bytes, x.elems[i + 1].bytes>> :
                    i \in {j \in DOMAIN x.elems : j % 2 = 1}}
               = {<<y.elems[i].bytes, y.elems[i + 1].bytes>> :
                    i \in {j \in DOMAIN y.elems : j % 2 = 1}}
         [] x.kind = "Set" ->
               {x.elems[i].bytes : i \in DOMAIN x.elems}
               = {y.elems[i].bytes : i \in DOMAIN y.elems}
         [] OTHER -> x.elems = y.elems

\* C40: a stored value converted to its frame and read back is the value it
\* was: from_bytes_frame(to_bytes_frame(v)) is Some(v), whatever the kind.
C40_RoundTrip ==
    (component = "values" /\ conv.step = "value")
    => /\ conv.back.some
       /\ SameValue(conv.back.v, conv.value)

====
